---- MODULE Spec2Model ----
(***************************************************************************)
(* Verification model of four parts of the repository:                     *)
(*  - FuseTable::do_read                                                   *)
(*    (src/query/src/storages/fuse/operations/read.rs): the lazy partition *)
(*    iterator (from_fn + flatten), the per-partition read future and the  *)
(*    buffer_unordered(bite_size) stream that drives them;                 *)
(*  - AggregatorPartialTransform as run by                                 *)
(*    transform_aggregator_partial_test.rs: partial aggregation of a       *)
(*    stream of blocks and its flush at the end of the stream;             *)
(*  - GrantObject, GrantEntry and UserGrantSet                             *)
(*    (src/common/meta/types/src/user_grant.rs);                           *)
(*  - init_default_ut_tracing and the Once that guards it                  *)
(*    (src/common/tracing/src/logging.rs).                                 *)
(***************************************************************************)
EXTENDS Integers, Sequences, FiniteSets, Bags, TLC

\* ------------------------------------------------------------------ bounds
MaxParts == 3        \* partitions in the context's partition queue
MaxThreads == 2      \* largest value of the parallel_read_threads setting
MaxFields == 2       \* fields of the table schema
MaxPrjLen == 1       \* length of a pushed-down projection

\* ------------------------------------------------------------------ values
\* Option<T> is a sequence of at most one element: <<>> is None, <<x>> is
\* Some(x).
None == <<>>
Some(x) == <<x>>

\* Outcome of reading one partition, fixed by the storage for the whole run:
\* the block is read, the reader fails, the reader returns Ok(None), or the
\* partition's name is not a PartInfo encoding.
Outcomes == {"block", "read_err", "none", "bad_name"}

PartIds == 1..MaxParts

\* Location and length of the data a partition names.
LocationOf(p) == 100 + p
LengthOf(p) == 10 * p

RECURSIVE SeqsUpTo(_, _)
SeqsUpTo(S, n) ==
    IF n = 0 THEN {<<>>}
    ELSE LET shorter == SeqsUpTo(S, n - 1)
         IN shorter \cup {Append(s, x) : s \in shorter, x \in S}

\* Option<Extras>: None, or an Extras whose projection is None or Some(prj).
Projections == SeqsUpTo(0..(MaxFields - 1), MaxPrjLen)
PushDowns ==
    {None} \cup
    {Some([projection |-> o]) : o \in {None} \cup {Some(p) : p \in Projections}}

Range(s) == {s[i] : i \in 1..Len(s)}

VARIABLES
    \* the environment of the scans
    parts,          \* partitions of the table, in the catalog's order
    outcome,        \* partition -> Outcomes
    catErrAt,       \* index of the catalog request that fails (0: none)
    nfields,        \* number of fields of the table schema
    push_downs,     \* the Option<Extras> of the scan request
    \* do_read
    scans,          \* number of do_read calls made so far
    prev,           \* what the previous, finished scan handed out and yielded
    result,         \* "idle", "Ok" (a stream was returned) or "Err"
    bite_size,      \* get_parallel_read_threads()
    projection,     \* the projection captured by the stream
    \* the iterator: from_fn(..).flatten()
    queue,          \* partitions left in the context
    callLog,        \* result of every try_get_partitions call, in order
    fused,          \* Flatten's Fuse has seen None from the closure
    frontiter,      \* rest of the group being flattened
    handed,         \* partitions handed out by the catalog, in order
    \* the stream: map(..).buffer_unordered(bite_size)
    stream_done,    \* BufferUnordered's Fuse has seen the end of the parts
    tasks,          \* in_progress_queue: partition -> "new"|"waiting"|"woken"
    ready_to_run,   \* FuturesUnordered's queue of tasks to poll, FIFO
    started,        \* futures first polled, in order: [part, source]
    output,         \* elements yielded to the consumer, in order
    lastPoll,       \* what the consumer's last poll_next returned
    ended,          \* the stream has returned Ready(None)
    dropped         \* the consumer has dropped the stream

envVars == <<parts, outcome, catErrAt, nfields, push_downs>>
callVars == <<scans, prev, result, bite_size, projection>>
iterVars == <<queue, callLog, fused, frontiter, handed>>
streamVars == <<stream_done, tasks, ready_to_run, started, output, lastPoll,
                ended, dropped>>

VARIABLES
    \* AggregatorPartialTransform and the stream it reads
    blocks,         \* input blocks of the upstream, each a sequence of rows
    pending,        \* indices of the blocks that have not arrived yet
    numbers,        \* the number source of the test: [rows, next, block]
    group_by,       \* whether the rows are grouped by their key
    groups,         \* group key -> array of accumulators, one per expression
    emitted,        \* output blocks of the transform, in order
    \* UserGrantSet
    grants,         \* UserGrantSet::grants, a Vec<GrantEntry>
    before,         \* grants as they were before the last call
    lastCall        \* the last call made on the set, with its arguments

VARIABLES
    \* init_default_ut_tracing
    once,           \* state of the Once START
    caller,         \* thread -> where it is in init_default_ut_tracing
    calls,          \* thread -> calls it has returned from
    guard_slot,     \* GLOBAL_UT_LOG_GUARD: the Option<Vec<WorkerGuard>>
    mutex,          \* the Mutex of GLOBAL_UT_LOG_GUARD
    inits           \* executions of init_global_tracing: [started, finished]

aggVars == <<blocks, pending, numbers, group_by, groups, emitted>>
grantVars == <<grants, before, lastCall>>
logVars == <<once, caller, calls, guard_slot, mutex, inits>>
scanVars == <<envVars, callVars, iterVars, streamVars>>
vars == <<scanVars, aggVars, grantVars, logVars>>

\* No thread has called init_default_ut_tracing.
NoTracing ==
    /\ once = "INCOMPLETE"
    /\ caller = <<>>
    /\ calls = <<>>
    /\ guard_slot = None
    /\ mutex = "free"
    /\ inits = [started |-> 0, finished |-> 0]

\* No call has been made on the grant set, which is UserGrantSet::empty().
NoCall == [op |-> "none", user |-> "", host_pattern |-> "", object |-> <<>>,
           privileges |-> {}, ok |-> TRUE]

NoGrants ==
    /\ grants = <<>>
    /\ before = <<>>
    /\ lastCall = NoCall

NoGroups == [k \in {} |-> <<>>]

\* No transform has been built: there is no input and no state.
NoTransform ==
    /\ blocks = <<>>
    /\ pending = {}
    /\ numbers = [rows |-> 0, next |-> 0, block |-> 1]
    /\ group_by = FALSE
    /\ groups = NoGroups
    /\ emitted = <<>>

\* ------------------------------------------------------------ projection
\* read.rs 46-48: (0..fields().len()).collect()
FullProjection(n) == [i \in 1..n |-> i - 1]

\* A projection that takes an empty pushed-down projection for none.
ProjectionOfEmptyAsAll(pd, n) ==
    IF pd # None /\ pd[1].projection # None /\ pd[1].projection[1] # <<>>
    THEN pd[1].projection[1]
    ELSE FullProjection(n)

\* read.rs 39-49: the projection of the push-downs when there is one,
\* otherwise every field of the schema.
ProjectionOf(pd, n) ==
    IF pd # None /\ pd[1].projection # None
    THEN pd[1].projection[1]
    ELSE FullProjection(n)

\* ----------------------------------------------------- partition iterator
Min(a, b) == IF a < b THEN a ELSE b

\* QueryContext::try_get_partitions(num): the next `num` partitions of the
\* context's queue, fewer when it runs out; request number catErrAt fails
\* and takes nothing.  n is the number of requests made before this one.
TryGetPartitions(q, n, num) ==
    IF catErrAt = n + 1
    THEN [ok |-> FALSE, parts |-> <<>>, queue |-> q]
    ELSE [ok |-> TRUE,
          parts |-> SubSeq(q, 1, Min(num, Len(q))),
          queue |-> SubSeq(q, Min(num, Len(q)) + 1, Len(q))]

\* A closure that takes a failed request for an empty group and goes on.
FromFnClosureSkipsErr(r) ==
    IF ~r.ok THEN Some(<<>>)
    ELSE IF r.parts = <<>> THEN None
    ELSE Some(r.parts)

\* read.rs 55-59: the closure given to from_fn.
FromFnClosure(r) ==
    IF ~r.ok THEN None
    ELSE IF r.parts = <<>> THEN None
    ELSE Some(r.parts)

CallKind(r) ==
    IF ~r.ok THEN "err" ELSE IF r.parts = <<>> THEN "empty" ELSE "parts"

\* read.rs 53-61: next() of from_fn(..).flatten().  Flatten takes the next
\* partition of the current group; when the group is used up it asks the
\* fused outer iterator for another one, and Fuse never calls the closure
\* again once it has returned None.
RECURSIVE FlattenNext(_, _)
FlattenNext(it, num) ==
    IF it.frontiter # <<>>
    THEN [item |-> Some(Head(it.frontiter)),
          it |-> [it EXCEPT !.frontiter = Tail(@)]]
    ELSE IF it.fused
    THEN [item |-> None, it |-> it]
    ELSE LET r == TryGetPartitions(it.queue, Len(it.callLog), num)
             c == FromFnClosure(r)
             called == [it EXCEPT !.queue = r.queue,
                                  !.callLog = Append(@, CallKind(r)),
                                  !.handed = @ \o r.parts]
         IN IF c = None
            THEN [item |-> None, it |-> [called EXCEPT !.fused = TRUE]]
            ELSE FlattenNext([called EXCEPT !.frontiter = c[1]], num)

\* -------------------------------------------------- the per-partition future
\* The name of a partition encodes location and length (PartInfo::encode);
\* a name that is no such encoding is modelled by the empty tuple.
PartName(p) ==
    IF outcome[p] = "bad_name" THEN <<>> ELSE <<LocationOf(p), LengthOf(p)>>

\* PartInfo::decode(name): the location and length a name encodes, or an
\* error.
PartInfoDecode(name) ==
    IF Len(name) = 2
    THEN [ok |-> TRUE, location |-> name[1], length |-> name[2]]
    ELSE [ok |-> FALSE, location |-> 0, length |-> 0]

\* An element of the output stream: Ok(block) or Err(error).  `part` names
\* the partition whose future produced it; `location` is the location the
\* payload carries, if any; `columns` the fields a block holds.
Element(kind, p, code, msg, loc, cols) ==
    [kind |-> kind, part |-> p, code |-> code, msg |-> msg,
     location |-> loc, columns |-> cols]

\* read.rs 75: the error of PartInfo::decode leaves the future through `?`,
\* as PartInfo::decode made it.
DecodeFailure(p) ==
    Element("err", p, "PartInfoDecode", "", None, <<>>)

\* read.rs 79-87: ParquetSource::with_hints(da, location, schema,
\* projection, None, Some(len), Some(read_buffer_size)).
WithHints(p, info, prj) ==
    [part |-> p, location |-> info.location, length |-> info.length,
     projection |-> prj]

\* A future that takes Ok(None) for a block without columns.
ReadResultNoneAsEmpty(p, part_location, prj) ==
    CASE outcome[p] = "read_err" ->
            Element("err", p, "ParquetError", "fail to read block",
                    Some(part_location), <<>>)
      [] outcome[p] = "none" ->
            Element("block", p, "", "", Some(part_location), <<>>)
      [] OTHER ->
            Element("block", p, "", "", Some(part_location), prj)

\* read.rs 88-102: the outcome of source.read().await, an Err wrapped into
\* ParquetError("fail to read block {location}, {e}"), an Ok(None) turned
\* into ParquetError("reader returns None for block {location}").
ReadResult(p, part_location, prj) ==
    CASE outcome[p] = "read_err" ->
            Element("err", p, "ParquetError", "fail to read block",
                    Some(part_location), <<>>)
      [] outcome[p] = "none" ->
            Element("err", p, "ParquetError", "reader returns None for block",
                    Some(part_location), <<>>)
      [] OTHER ->
            Element("block", p, "", "", Some(part_location), prj)

\* read.rs 74-103: what the future of partition p resolves to.
PartFuture(p, prj) ==
    LET part_info == PartInfoDecode(PartName(p))
    IN IF ~part_info.ok
       THEN DecodeFailure(p)
       ELSE ReadResult(p, part_info.location, prj)

\* read.rs 75-87: what the first poll of the future of p starts: nothing
\* when the name does not decode, otherwise a ParquetSource.
StartOf(p, prj) ==
    LET part_info == PartInfoDecode(PartName(p))
    IN [part |-> p,
        source |-> IF part_info.ok
                   THEN Some(WithHints(p, part_info, prj)) ELSE None]

\* ------------------------------------------------------- buffer_unordered
EmptyTasks == [p \in {} |-> "new"]

\* A scan's state as one record, for the loops of poll_next.
ScanState ==
    [it |-> [queue |-> queue, callLog |-> callLog, fused |-> fused,
             frontiter |-> frontiter, handed |-> handed],
     stream_done |-> stream_done, tasks |-> tasks,
     ready_to_run |-> ready_to_run, started |-> started, output |-> output,
     polled |-> "pending"]

\* A queue that takes one future more than its bound.
HasRoomInclusive(len, max) == len <= max

\* read.rs 105, BufferUnordered::poll_next: in_progress_queue.len() < max
HasRoom(len, max) == len < max

\* A queue that polls the future pushed last first.
PushFront(s, p) ==
    [s EXCEPT !.tasks = (p :> "new") @@ @,
              !.ready_to_run = <<p>> \o @]

\* FuturesUnordered::push: the task is linked in and queued to be polled.
Push(s, p) ==
    [s EXCEPT !.tasks = (p :> "new") @@ @,
              !.ready_to_run = Append(@, p)]

\* A queue that keeps the task of a resolved future.
ReleaseNothing(ts, p) == ts

\* FuturesUnordered releases a task whose future has resolved.
Release(ts, p) == [q \in (DOMAIN ts) \ {p} |-> ts[q]]

\* read.rs 66-105: the first loop of BufferUnordered::poll_next: while there
\* is room, take the next partition of the fused, mapped part_stream and
\* push its future.
RECURSIVE FillQueue(_, _)
FillQueue(s, max) ==
    IF ~HasRoom(Cardinality(DOMAIN s.tasks), max) \/ s.stream_done
    THEN s
    ELSE LET n == FlattenNext(s.it, max)
         IN IF n.item = None
            THEN [s EXCEPT !.it = n.it, !.stream_done = TRUE]
            ELSE FillQueue(Push([s EXCEPT !.it = n.it], n.item[1]), max)

\* A queue that yields the error of a failed future and queues the future
\* again.
ResolveRetry(s, p, e) ==
    IF e.kind = "err"
    THEN [s EXCEPT !.tasks[p] = "new",
                   !.ready_to_run = Append(@, p),
                   !.output = Append(@, e),
                   !.polled = "item"]
    ELSE [s EXCEPT !.tasks = Release(@, p),
                   !.output = Append(@, e),
                   !.polled = "item"]

\* A queue that ends the stream with the first error: the futures left are
\* dropped and no partition is taken any more.
ResolveFailFast(s, p, e) ==
    IF e.kind = "err"
    THEN [s EXCEPT !.tasks = EmptyTasks,
                   !.ready_to_run = <<>>,
                   !.stream_done = TRUE,
                   !.output = Append(@, e),
                   !.polled = "item"]
    ELSE [s EXCEPT !.tasks = Release(@, p),
                   !.output = Append(@, e),
                   !.polled = "item"]

\* A future resolved: its element is the result of this poll.
Resolve(s, p, e) ==
    [s EXCEPT !.tasks = Release(@, p),
              !.output = Append(@, e),
              !.polled = "item"]

\* FuturesUnordered::poll_next: poll the queued tasks in order until one
\* resolves.  A task polled for the first time (read.rs 74-103) decodes the
\* partition's name and starts the read; the reads in `fast` are ready at
\* once, the others wait for the storage.  A woken task has its read done.
RECURSIVE PollQueue(_, _, _)
PollQueue(s, prj, fast) ==
    IF s.ready_to_run = <<>>
    THEN [s EXCEPT !.polled = IF DOMAIN s.tasks = {} THEN "empty" ELSE "pending"]
    ELSE LET p == Head(s.ready_to_run)
             rest == [s EXCEPT !.ready_to_run = Tail(@)]
         IN IF s.tasks[p] = "new"
            THEN LET begun == [rest EXCEPT !.started = Append(@, StartOf(p, prj))]
                 IN IF ~PartInfoDecode(PartName(p)).ok \/ p \in fast
                    THEN Resolve(begun, p, PartFuture(p, prj))
                    ELSE PollQueue([begun EXCEPT !.tasks[p] = "waiting"], prj, fast)
            ELSE Resolve(rest, p, PartFuture(p, prj))

\* A stream that ends as soon as the partitions are used up, whatever is
\* still in the queue.
StreamEndsEarly(s) == s.polled # "item" /\ s.stream_done

\* BufferUnordered::poll_next, last step: Ready(None) when the queue is
\* empty and the fused stream of partitions is done, Pending otherwise.
StreamEnds(s) == s.polled = "empty" /\ s.stream_done

\* ------------------------------------------------------------------ state
\* The multiset of the payloads of a sequence of stream elements.
Payload(e) ==
    [kind |-> e.kind, code |-> e.code, msg |-> e.msg,
     location |-> e.location, columns |-> e.columns]

Payloads(seq) == {Payload(seq[i]) : i \in 1..Len(seq)}

BagOfPayloads(seq) ==
    [x \in Payloads(seq) |->
        Cardinality({i \in 1..Len(seq) : Payload(seq[i]) = x})]

ValidPushDown(pd, n) ==
    \/ pd = None
    \/ pd[1].projection = None
    \/ Range(pd[1].projection[1]) \subseteq 0..(n - 1)

\* No do_read call has been made; the context holds the table's partitions.
NoScan ==
    /\ scans = 0
    /\ prev = None
    /\ result = "idle"
    /\ bite_size = 0
    /\ projection = <<>>
    /\ queue = parts
    /\ callLog = <<>>
    /\ fused = FALSE
    /\ frontiter = <<>>
    /\ handed = <<>>
    /\ stream_done = FALSE
    /\ tasks = EmptyTasks
    /\ ready_to_run = <<>>
    /\ started = <<>>
    /\ output = <<>>
    /\ lastPoll = "none"
    /\ ended = FALSE
    /\ dropped = FALSE

\* Any table, any storage behaviour, one failing catalog request at most.
Init ==
    /\ \E n \in 0..MaxParts :
          /\ parts = [i \in 1..n |-> i]
          /\ outcome \in [1..n -> Outcomes]
          /\ catErrAt \in 0..(n + 1)
    /\ nfields = MaxFields
    /\ push_downs = None
    /\ NoScan
    /\ NoTracing
    /\ NoTransform
    /\ NoGrants

\* ---------------------------------------------------------------- actions
\* read.rs 34-107: do_read with the settings' parallel_read_threads being
\* `threads`; `ok` is false when one of the three `?` of lines 51, 62 and 68
\* (get_parallel_read_threads, get_data_accessor,
\* get_storage_read_buffer_size) returns the error.  Nothing is read here:
\* the stream returned is lazy.
Call(threads, ok) ==
    /\ scans' = scans + 1
    /\ result' = IF ok THEN "Ok" ELSE "Err"
    /\ bite_size' = IF ok THEN threads ELSE 0
    /\ projection' = IF ok THEN ProjectionOf(push_downs, nfields) ELSE <<>>
    /\ queue' = parts
    /\ callLog' = <<>>
    /\ fused' = FALSE
    /\ frontiter' = <<>>
    /\ handed' = <<>>
    /\ stream_done' = FALSE
    /\ tasks' = EmptyTasks
    /\ ready_to_run' = <<>>
    /\ started' = <<>>
    /\ output' = <<>>
    /\ lastPoll' = "none"
    /\ ended' = FALSE
    /\ dropped' = FALSE
    /\ UNCHANGED <<envVars, aggVars, grantVars, logVars>>

DoRead ==
    /\ result = "idle"
    /\ \E threads \in 0..MaxThreads, ok \in BOOLEAN : Call(threads, ok)
    /\ prev' = prev

\* The consumer polls the stream (BufferUnordered::poll_next, read.rs 105):
\* fill the queue, poll it, and end the stream when the queue is empty and
\* the partitions are used up.
PollNext ==
    /\ result = "Ok"
    /\ ~ended
    /\ ~dropped
    /\ LET filled == FillQueue(ScanState, bite_size)
           fresh == {p \in DOMAIN filled.tasks : filled.tasks[p] = "new"}
       IN \E fast \in SUBSET fresh :
            LET s == PollQueue(filled, projection, fast)
            IN /\ queue' = s.it.queue
               /\ callLog' = s.it.callLog
               /\ fused' = s.it.fused
               /\ frontiter' = s.it.frontiter
               /\ handed' = s.it.handed
               /\ stream_done' = s.stream_done
               /\ tasks' = s.tasks
               /\ ready_to_run' = s.ready_to_run
               /\ started' = s.started
               /\ output' = s.output
               /\ ended' = StreamEnds(s)
               /\ lastPoll' = IF s.polled = "item" THEN "item"
                              ELSE IF StreamEnds(s) THEN "end"
                              ELSE "pending"
    /\ UNCHANGED <<aggVars, grantVars, logVars>>
    /\ UNCHANGED <<envVars, callVars, dropped>>

\* The storage finishes the read of a waiting partition and wakes its task.
ReadDone ==
    /\ \E p \in DOMAIN tasks :
          /\ tasks[p] = "waiting"
          /\ tasks' = [tasks EXCEPT ![p] = "woken"]
          /\ ready_to_run' = Append(ready_to_run, p)
    /\ UNCHANGED <<aggVars, grantVars, logVars>>
    /\ UNCHANGED <<envVars, callVars, iterVars, stream_done, started, output,
                   lastPoll, ended, dropped>>

\* The consumer drops the stream before its end; the futures still in the
\* queue are dropped with it.
DropStream ==
    /\ result = "Ok"
    /\ ~ended
    /\ ~dropped
    /\ dropped' = TRUE
    /\ tasks' = EmptyTasks
    /\ ready_to_run' = <<>>
    /\ UNCHANGED <<aggVars, grantVars, logVars>>
    /\ UNCHANGED <<envVars, callVars, iterVars, stream_done, started, output,
                   lastPoll, ended>>

Next == DoRead \/ PollNext \/ ReadDone \/ DropStream

Spec == Init /\ [][Next]_vars

\* A second do_read on a fresh context holding the same partitions, after
\* the stream of the first one has been drained; the bound of the first
\* scan and what it was handed and yielded are kept for comparison.
ReRead ==
    /\ ended
    /\ prev = None
    /\ \E threads \in 1..MaxThreads : Call(threads, TRUE)
    /\ prev' = Some([bite_size |-> bite_size,
                     handed |-> Range(handed),
                     elements |-> BagOfPayloads(output)])

\* Two scans, each drained by its consumer.
NextRerun == DoRead \/ PollNext \/ ReadDone \/ ReRead

\* As Init, without the readers that return Ok(None): for the stream they
\* are readers that fail, with another message.
InitRerun ==
    /\ \E n \in 0..MaxParts :
          /\ parts = [i \in 1..n |-> i]
          /\ outcome \in [1..n -> Outcomes \ {"none"}]
          /\ catErrAt \in 0..(n + 1)
    /\ nfields = MaxFields
    /\ push_downs = None
    /\ NoScan
    /\ NoTracing
    /\ NoTransform
    /\ NoGrants

SpecRerun == InitRerun /\ [][NextRerun]_vars

\* Any schema and any valid push-downs, over a storage that reads every block.
InitProjection ==
    /\ \E n \in 0..MaxParts :
          /\ parts = [i \in 1..n |-> i]
          /\ outcome = [i \in 1..n |-> "block"]
    /\ catErrAt = 0
    /\ nfields \in 0..MaxFields
    /\ push_downs \in {pd \in PushDowns : ValidPushDown(pd, nfields)}
    /\ NoScan
    /\ NoTracing
    /\ NoTransform
    /\ NoGrants

SpecProjection == InitProjection /\ [][Next]_vars

\* ----------------------------------------------------------------- claims
StartedParts == [i \in 1..Len(started) |-> started[i].part]

NoDuplicates(seq) ==
    \A i, j \in 1..Len(seq) : i # j => seq[i] # seq[j]

\* The futures that have been polled and have not resolved.
InFlight == {p \in DOMAIN tasks : tasks[p] # "new"}

\* C1: the processing of a partition is started at most once, failed or
\* not, only partitions the catalog handed out are started, and when the
\* stream has been drained every partition handed out has been started.
C1_EachPartitionStartedOnce ==
    /\ NoDuplicates(StartedParts)
    /\ Range(StartedParts) \subseteq Range(handed)
    /\ NoDuplicates(handed)
    /\ ended => Range(StartedParts) = Range(handed)

\* A drained scan of several partitions, one of which failed.
C1_Witness ==
    /\ ended
    /\ Len(handed) >= 2
    /\ \E i \in 1..Len(output) : output[i].kind = "err"
    /\ \E i \in 1..Len(output) : output[i].kind = "block"

\* C2: the futures started and not yet resolved never outnumber the
\* concurrency bound.
C2_InFlightBounded ==
    result = "Ok" =>
        /\ Cardinality(InFlight) <= bite_size
        /\ Cardinality(DOMAIN tasks) <= bite_size

\* The bound is reached while a partition of the table still waits its turn.
C2_Witness ==
    /\ bite_size >= 2
    /\ Cardinality(InFlight) = bite_size
    /\ queue # <<>>

OutputParts == [i \in 1..Len(output) |-> output[i].part]

C4_ErrorsCarryLocation ==
    \A i \in 1..Len(output) :
        output[i].kind = "err" =>
            output[i].location = Some(LocationOf(output[i].part))

\* C5: a partition whose reader returns Ok(None) yields an error element,
\* never a block; blocks come only from partitions that were read; every
\* started partition yields one element, none is skipped.
C5_AbsentIsError ==
    /\ \A i \in 1..Len(output) :
          /\ outcome[output[i].part] = "none" =>
                /\ output[i].kind = "err"
                /\ output[i].msg = "reader returns None for block"
          /\ output[i].kind = "block" =>
                /\ outcome[output[i].part] = "block"
                /\ output[i].columns = projection
    /\ ~dropped => Len(output) + Cardinality(InFlight) = Len(started)
    /\ ended => Len(output) = Len(started)

\* A drained scan in which a reader returned Ok(None).
C5_Witness ==
    /\ ended
    /\ Len(output) >= 2
    /\ \E i \in 1..Len(output) : outcome[output[i].part] = "none"

\* C6: a catalog request that returns an empty group or an error is the
\* last one of the scan; every element yielded is the result of a partition
\* handed out, never of the request that ended the enumeration; and a
\* drained stream has yielded an element for every partition handed out.
C6_FirstEmptyOrErrEndsEnumeration ==
    /\ \A i \in 1..Len(callLog) : callLog[i] # "parts" => i = Len(callLog)
    /\ fused => (callLog # <<>> /\ callLog[Len(callLog)] # "parts")
    /\ \A i \in 1..Len(output) :
          /\ output[i].part \in Range(handed)
          /\ output[i] = PartFuture(output[i].part, projection)
    /\ ended => Range(OutputParts) = Range(handed)

\* A drained scan that a failed request cut short: partitions handed out
\* before were yielded, others are left in the context.
C6_Witness ==
    /\ ended
    /\ callLog # <<>>
    /\ callLog[Len(callLog)] = "err"
    /\ output # <<>>
    /\ queue # <<>>

C8_ZeroBoundRejected ==
    ~(result = "Ok" /\ bite_size = 0)

\* The indices 0..n-1 of the schema's fields, in order.
IsAllFields(prj) ==
    /\ Len(prj) = nfields
    /\ \A i \in 1..nfields : prj[i] = i - 1

\* The projection given to every ParquetSource of the scan is `prj`.
ReadsUse(prj) ==
    /\ projection = prj
    /\ \A i \in 1..Len(started) :
          started[i].source # None => started[i].source[1].projection = prj

\* C9 as stated: all fields when the push-downs are absent, carry no
\* projection or carry an empty one; otherwise the projection they carry.
C9_EmptyProjectionMeansAllFields ==
    result = "Ok" =>
        IF /\ push_downs # None
           /\ push_downs[1].projection # None
           /\ push_downs[1].projection[1] # <<>>
        THEN ReadsUse(push_downs[1].projection[1])
        ELSE IsAllFields(projection) /\ ReadsUse(projection)

\* C9, amended: all fields when the push-downs are absent or carry no
\* projection; otherwise the projection they carry, also when it is empty.
C9_ProjectionAsGiven ==
    result = "Ok" =>
        IF push_downs # None /\ push_downs[1].projection # None
        THEN ReadsUse(push_downs[1].projection[1])
        ELSE IsAllFields(projection) /\ ReadsUse(projection)

\* A partition of a table with fields is read with the empty projection
\* the push-downs carry.
C9_Witness ==
    /\ nfields >= 1
    /\ push_downs # None
    /\ push_downs[1].projection = Some(<<>>)
    /\ \E i \in 1..Len(started) :
          /\ started[i].source # None
          /\ started[i].source[1].projection = <<>>

\* C10: the futures are started in the order in which the catalog handed
\* the partitions out: the started partitions are a prefix of them.
C10_StartedInEnumerationOrder ==
    /\ Len(started) <= Len(handed)
    /\ \A i \in 1..Len(started) : started[i].part = handed[i]
    /\ \A i \in 1..Len(handed) : handed[i] = parts[i]

\* An element of a later partition was yielded before that of an earlier.
C10_Witness ==
    \E i, j \in 1..Len(output) : i < j /\ output[i].part > output[j].part

\* A scan whose consumer keeps polling until the end of the stream and
\* whose storage finishes every read it was asked for.
\* The readers are those of InitRerun: for the stream a reader returning
\* Ok(None) is a reader that fails.
NextDrain == DoRead \/ PollNext \/ ReadDone

\* The states in which poll_next returns Pending and leaves everything as
\* it is: the last poll was Pending as well, no task is queued to be polled,
\* and the first loop of BufferUnordered::poll_next has nothing to take
\* (no room, or the partitions are used up and futures are still waiting).
PollIdle ==
    /\ lastPoll = "pending"
    /\ ready_to_run = <<>>
    /\ ~HasRoom(Cardinality(DOMAIN tasks), bite_size) \/ stream_done
    /\ DOMAIN tasks # {} \/ ~stream_done

\* ENABLED <<PollNext>>_vars, written out.
PollCanAct == result = "Ok" /\ ~ended /\ ~dropped /\ ~PollIdle

\* WF_vars(PollNext) with its enabling condition written out: a consumer
\* that keeps awaiting the next element polls whenever a poll changes
\* anything.
ConsumerKeepsPulling == []<>(~PollCanAct) \/ []<><<PollNext>>_vars

SpecDrain ==
    /\ InitRerun
    /\ [][NextDrain]_vars
    /\ ConsumerKeepsPulling
    /\ WF_vars(ReadDone)

\* C11: a stream with a bound of at least 1, polled on while every read
\* finishes, reaches its end; over a table without partitions it ends and
\* has yielded nothing.
C11_StreamEnds ==
    /\ (result = "Ok" /\ bite_size >= 1) ~> ended
    /\ (result = "Ok" /\ bite_size >= 1 /\ parts = <<>>)
          ~> (ended /\ output = <<>>)
    /\ [](ended /\ handed = <<>> => output = <<>>)

\* The stream over a table without partitions has ended, nothing yielded.
C11_Witness ==
    /\ result = "Ok"
    /\ bite_size >= 1
    /\ parts = <<>>
    /\ ended
    /\ output = <<>>
    /\ lastPoll = "end"

\* ------------------------------------------- AggregatorPartialTransform
\* ------------------------------------------------------------------ bounds
MaxRows == 3         \* rows of the transform's input, over all its blocks

\* transform_aggregator_partial_test.rs 29:
\* number_source_transform_for_test(200000)
TestRows == 200000

\* Sizes of the blocks the number source of the test cuts its rows into.
TestBlockSizes == {8, 10}

\* Group keys and column values of the input rows.
Keys == {"A", "B"}
Values == {1, 2}

\* The group of the rows of an aggregation without group-by.
GlobalKey == ""

\* A UInt64 is held as two limbs, <<high, low>>, value high * Limb + low:
\* the sums of the test exceed the integers of the checker.  No sum of the
\* model comes near 2^64, where UInt64 addition wraps around.
Limb == 1000000

U64(n) == <<n \div Limb, n % Limb>>

U64Add(a, b) ==
    <<a[1] + b[1] + (a[2] + b[2]) \div Limb, (a[2] + b[2]) % Limb>>

\* transform_aggregator_partial_test.rs 21-22: the aggregate expressions
\* add(sum(col("number")), lit(2u64)) and avg(col("number")).
AggrExprs ==
    << [name |-> "plus(sum(number), 2)", func |-> "sum", wrap |-> "plus",
        lit |-> 2],
       [name |-> "avg(number)", func |-> "avg", wrap |-> "none", lit |-> 0] >>

\* The accumulator of an aggregate function before any row: a sum so far,
\* or a (sum, count) pair for an average.
InitState(e) ==
    IF e.func = "avg" THEN <<U64(0), U64(0)>> ELSE U64(0)

\* An average that keeps the running mean of the rows instead of their sum.
UpdateStateMean(e, st, x) ==
    IF e.func = "avg"
    THEN LET count == st[2][2] + 1
         IN <<U64(st[1][2] + (x - st[1][2]) \div count), U64(count)>>
    ELSE U64Add(st, U64(x))

\* The incremental-update rule: sum adds the column value; avg keeps a
\* running (sum, count) pair and divides nothing.
UpdateState(e, st, x) ==
    IF e.func = "avg"
    THEN <<U64Add(st[1], U64(x)), U64Add(st[2], U64(1))>>
    ELSE U64Add(st, U64(x))

\* A serialization that folds the arithmetic into the state of the sum.
StateValueFolded(e, st) ==
    IF e.wrap = "plus" THEN <<U64Add(st, U64(e.lit)), U64(e.lit)>> ELSE <<st>>

\* The accumulator's nested value in the output block: the raw state of the
\* aggregate, and next to it, not added, the operand of the arithmetic
\* that wraps it.
StateValue(e, st) ==
    IF e.wrap = "plus" THEN <<st, U64(e.lit)>> ELSE <<st>>

InitStates == [i \in 1..Len(AggrExprs) |-> InitState(AggrExprs[i])]

\* The groups of a transform that has seen no row: without group-by all
\* rows fall into one group, which exists from the start.
InitGroups(grouped) ==
    IF grouped THEN NoGroups ELSE (GlobalKey :> InitStates)

GroupKey(grouped, row) == IF grouped THEN row.key ELSE GlobalKey

\* One row: the accumulators of the row's group are updated, each by the
\* rule of its expression.
AccumulateRow(g, grouped, row) ==
    LET k == GroupKey(grouped, row)
        cur == IF k \in DOMAIN g THEN g[k] ELSE InitStates
    IN (k :> [i \in 1..Len(AggrExprs) |->
                 UpdateState(AggrExprs[i], cur[i], row.x)]) @@ g

\* One input block: its rows from the i-th on, in order.
RECURSIVE AccumulateFrom(_, _, _, _)
AccumulateFrom(g, grouped, block, i) ==
    IF i > Len(block) THEN g
    ELSE AccumulateFrom(AccumulateRow(g, grouped, block[i]), grouped,
                        block, i + 1)

AccumulateBlock(g, grouped, block) == AccumulateFrom(g, grouped, block, 1)

\* The next block of the number source: the numbers from `next` on, at
\* most `block` of them.
NumbersBlock(src) ==
    LET n == Min(src.block, src.rows - src.next)
    IN [i \in 1..n |-> [key |-> GlobalKey, x |-> src.next + i - 1]]

\* A transform that takes its input for exhausted as soon as one block has
\* arrived.
InputExhaustedAfterFirst ==
    \/ pending # 1..Len(blocks)
    \/ numbers.next > 0
    \/ pending = {} /\ numbers.next = numbers.rows

\* The input stream has returned None.
InputExhausted == pending = {} /\ numbers.next = numbers.rows

\* The output block: one column per aggregate expression, one row per
\* group, holding the accumulators' nested values.
Serialize(g) ==
    [columns |->
        [i \in 1..Len(AggrExprs) |->
            [k \in DOMAIN g |-> StateValue(AggrExprs[i], g[k][i])]]]

\* A combine rule that keeps the count of its left operand.
CombineStateLeftCount(e, a, b) ==
    IF e.func = "avg"
    THEN <<U64Add(a[1], b[1]), a[2]>>
    ELSE U64Add(a, b)

\* The combine rule of an accumulator: two sums add up, two (sum, count)
\* pairs add up by component.
CombineState(e, a, b) ==
    IF e.func = "avg"
    THEN <<U64Add(a[1], b[1]), U64Add(a[2], b[2])>>
    ELSE U64Add(a, b)

\* Two partial states folded into one: the accumulators of a group both
\* hold are combined, the other groups are taken over.
CombineGroups(g, h) ==
    [k \in DOMAIN g \cup DOMAIN h |->
        IF k \in DOMAIN g /\ k \in DOMAIN h
        THEN [i \in 1..Len(AggrExprs) |->
                 CombineState(AggrExprs[i], g[k][i], h[k][i])]
        ELSE IF k \in DOMAIN g THEN g[k] ELSE h[k]]

\* The partial state of a transform that reads just the i-th block.
PartialOf(i) == AccumulateBlock(InitGroups(group_by), group_by, blocks[i])

\* Every sequence of at most n rows.
RowSeqs(n) == SeqsUpTo([key : Keys, x : Values], n)

\* Every way to cut a sequence of rows into blocks that hold a row each.
RECURSIVE Splits(_)
Splits(rows) ==
    IF rows = <<>> THEN {<<>>}
    ELSE UNION {{<<SubSeq(rows, 1, n)>> \o rest :
                    rest \in Splits(SubSeq(rows, n + 1, Len(rows)))} :
                n \in 1..Len(rows)}

\* A transform built over the expressions of the test, before its first
\* block: over any rows in any blocks, grouped or not, or over the number
\* source of the test.
InitAggregate ==
    /\ \/ /\ group_by \in BOOLEAN
          /\ \E rows \in RowSeqs(MaxRows) : blocks \in Splits(rows)
          /\ numbers = [rows |-> 0, next |-> 0, block |-> 1]
       \/ /\ group_by = FALSE
          /\ blocks = <<>>
          /\ \E size \in TestBlockSizes :
                numbers = [rows |-> TestRows, next |-> 0, block |-> size]
    /\ pending = 1..Len(blocks)
    /\ groups = InitGroups(group_by)
    /\ emitted = <<>>
    /\ parts = <<>>
    /\ outcome = <<>>
    /\ catErrAt = 0
    /\ nfields = MaxFields
    /\ push_downs = None
    /\ NoScan
    /\ NoTracing
    /\ NoGrants

\* The upstream hands the transform one more block, whichever has arrived,
\* and the transform accumulates its rows.
Accumulate ==
    /\ emitted = <<>>
    /\ \E i \in pending :
          /\ groups' = AccumulateBlock(groups, group_by, blocks[i])
          /\ pending' = pending \ {i}
    /\ UNCHANGED <<blocks, numbers, group_by, emitted, scanVars, grantVars, logVars>>

\* The number source hands the transform its next block.
AccumulateNumbers ==
    /\ emitted = <<>>
    /\ numbers.next < numbers.rows
    /\ groups' = AccumulateBlock(groups, group_by, NumbersBlock(numbers))
    /\ numbers' = [numbers EXCEPT
                      !.next = Min(@ + numbers.block, numbers.rows)]
    /\ UNCHANGED <<blocks, pending, group_by, emitted, scanVars, grantVars, logVars>>

\* The input is exhausted: the transform serializes its groups into its
\* output block.
Flush ==
    /\ emitted = <<>>
    /\ InputExhausted
    /\ emitted' = Append(emitted, Serialize(groups))
    /\ UNCHANGED <<blocks, pending, numbers, group_by, groups, scanVars,
                   grantVars, logVars>>

NextAggregate == Accumulate \/ AccumulateNumbers \/ Flush

SpecAggregate == InitAggregate /\ [][NextAggregate]_vars

\* The transform with a scheduler that runs it on when its input is done.
SpecAggregateFair == SpecAggregate /\ WF_vars(Flush)

\* ----------------------------------------------------------------- claims
\* The rows of all input blocks, in the order of the blocks.
RECURSIVE AllRows(_)
AllRows(bs) == IF bs = <<>> THEN <<>> ELSE Head(bs) \o AllRows(Tail(bs))

RowsOfGroup(k) ==
    SelectSeq(AllRows(blocks), LAMBDA r : GroupKey(group_by, r) = k)

RECURSIVE SumOfRows(_)
SumOfRows(rows) ==
    IF rows = <<>> THEN 0 ELSE Head(rows).x + SumOfRows(Tail(rows))

\* The groups the input rows fall into.
GroupsOfInput ==
    IF group_by THEN {r.key : r \in Range(AllRows(blocks))} ELSE {GlobalKey}

\* 19999900000, the sum of the numbers 0..199999, and 19999900002.
TestSum == <<19999, 900000>>
TestSumPlusTwo == <<19999, 900002>>

\* The column of the i-th aggregate expression in the output block.
Column(i) == emitted[1].columns[i]

\* C12: the state emitted for avg(x) is the pair (sum of x over the rows of
\* the group, number of those rows), whatever the blocks the rows came in;
\* over the numbers 0..199999 it is (19999900000, 200000).
C12_AvgIsSumAndCount ==
    emitted # <<>> =>
        /\ numbers.rows = 0 =>
              /\ DOMAIN Column(2) = GroupsOfInput
              /\ \A k \in GroupsOfInput :
                    Column(2)[k] = << <<U64(SumOfRows(RowsOfGroup(k))),
                                        U64(Len(RowsOfGroup(k)))>> >>
        /\ numbers.rows = TestRows =>
              Column(2)[GlobalKey] = << <<TestSum, U64(TestRows)>> >>

\* The run of the test has emitted its block, the input cut into blocks
\* of 8 rows.
C12_Witness ==
    /\ emitted # <<>>
    /\ numbers.rows = TestRows
    /\ numbers.next = TestRows
    /\ numbers.block = 8
    /\ Column(2)[GlobalKey][1][2] = U64(TestRows)

C14_OneBlockAtExhaustion ==
    /\ [](Len(emitted) <= 1)
    /\ [](emitted # <<>> =>
            /\ pending = {}
            /\ numbers.next = numbers.rows
            /\ Len(emitted[1].columns) = Len(AggrExprs))
    /\ [][emitted' # emitted =>
            emitted = <<>> /\ pending = {} /\ numbers.next = numbers.rows]_vars
    /\ (pending = {} /\ numbers.next = numbers.rows) ~> (Len(emitted) = 1)

\* The block has been emitted after two input blocks.
C14_Witness ==
    /\ Len(blocks) >= 2
    /\ pending = {}
    /\ Len(emitted) = 1
    /\ Len(emitted[1].columns) = 2

\* The blocks with the given indices accumulated in the order of the indices.
RECURSIVE InOrder(_, _)
InOrder(g, is) ==
    IF is = {} THEN g
    ELSE LET i == CHOOSE j \in is : \A l \in is : j <= l
         IN InOrder(AccumulateBlock(g, group_by, blocks[i]), is \ {i})

\* The partial states of the blocks with the given indices combined in
\* the order of the indices.
RECURSIVE CombinedInOrder(_)
CombinedInOrder(is) ==
    LET i == CHOOSE j \in is : \A l \in is : j >= l
    IN IF is = {i} THEN PartialOf(i)
       ELSE CombineGroups(CombinedInOrder(is \ {i}), PartialOf(i))

\* What combining the partial states of the blocks with the given indices
\* can give, over every order and every grouping of the combinations.
RECURSIVE CombinedAnyhow(_)
CombinedAnyhow(is) ==
    IF Cardinality(is) = 1
    THEN {PartialOf(CHOOSE j \in is : TRUE)}
    ELSE UNION {{CombineGroups(g, h) :
                    g \in CombinedAnyhow(left),
                    h \in CombinedAnyhow(is \ left)} :
                left \in (SUBSET is) \ {{}, is}}

\* C15: whatever the order the blocks arrived in, the groups are those of
\* the arrived blocks accumulated in the order of their indices; and the
\* partial states of the blocks, combined in any order and any grouping,
\* give what combining them in the order of their indices gives.
C15_OrderDoesNotMatter ==
    numbers.rows = 0 =>
        /\ groups = InOrder(InitGroups(group_by), (1..Len(blocks)) \ pending)
        /\ emitted # <<>> /\ blocks # <<>> =>
              CombinedAnyhow(1..Len(blocks))
                 = {CombinedInOrder(1..Len(blocks))}

\* Three blocks with rows of two groups have been accumulated, the last
\* block first.
C15_Witness ==
    /\ Len(blocks) = 3
    /\ group_by
    /\ Cardinality(GroupsOfInput) = 2
    /\ pending = {1, 2}
    /\ groups = PartialOf(3)

\* ---------------------------------------------------------- UserGrantSet
\* ------------------------------------------------------------------ bounds
MaxEntries == 2      \* entries of the grant set

Users == {"u1"}
Hosts == {"h1", "h2"}
Dbs == {"d1", "d2"}
Tables == {"t1", "t2"}

\* user_grant.rs 23-28: GrantObject.  Global is the empty tuple, a database
\* the tuple of its name, a table the tuple of its database and its name.
Global == <<>>
Database(db) == <<db>>
Table(db, table) == <<db, table>>

\* The objects the calls of the model validate, and the host patterns and
\* objects they grant on and revoke from.
GrantObjects == {Global, Database("d1"), Table("d1", "t1")}
Targets ==
    {<<"%", Global>>, <<"h1", Global>>, <<"h1", Database("d1")>>,
     <<"%", Table("d1", "t1")>>}

\* UserPrivilegeType, and the UserPrivilegeSets available on each kind of
\* object: Set is a privilege that can only be granted globally.
Privileges == {"Select", "Set"}
AvailablePrivilegesOnGlobal == {"Select", "Set"}
AvailablePrivilegesOnDatabase == {"Select"}
AvailablePrivilegesOnTable == {"Select"}

\* user_grant.rs 38-44
AvailablePrivileges(object) ==
    IF object = Global THEN AvailablePrivilegesOnGlobal
    ELSE IF Len(object) = 1 THEN AvailablePrivilegesOnDatabase
    ELSE AvailablePrivilegesOnTable

\* user_grant.rs 33-35
AllowPrivilege(object, privilege) ==
    privilege \in AvailablePrivileges(object)

\* A validation that is content with one privilege the object allows.
ValidatePrivilegesAny(object, privileges) ==
    IF \E p \in privileges : AllowPrivilege(object, p)
    THEN "Ok" ELSE "IllegalGrant"

\* user_grant.rs 47-55
ValidatePrivileges(object, privileges) ==
    IF \A p \in privileges : AllowPrivilege(object, p)
    THEN "Ok" ELSE "IllegalGrant"

\* user_grant.rs 75-89: GrantEntry::new
GrantEntry(user, host_pattern, object, privileges) ==
    [user |-> user, host_pattern |-> host_pattern, object |-> object,
     privileges |-> privileges]

\* user_grant.rs 163-169
MatchHostPattern(host_pattern, host) ==
    IF host_pattern = "%" THEN TRUE ELSE host_pattern = host

\* user_grant.rs 159-161
MatchesUserHost(e, user, host) ==
    e.user = user /\ MatchHostPattern(e.host_pattern, host)

\* user_grant.rs 155-157
MatchesEntry(e, user, host_pattern, object) ==
    e.user = user /\ e.host_pattern = host_pattern /\ e.object = object

\* user_grant.rs 91-106: GrantEntry::verify_global_privilege
EntryVerifyGlobalPrivilege(e, user, host, privilege) ==
    IF ~MatchesUserHost(e, user, host) THEN FALSE
    ELSE IF e.object # Global THEN FALSE
    ELSE privilege \in e.privileges

\* An entry whose grant on a table counts for the table's database.
EntryVerifyDatabasePrivilegeOfAnyObject(e, user, host, db, privilege) ==
    IF ~MatchesUserHost(e, user, host) THEN FALSE
    ELSE IF ~(IF e.object = Global THEN TRUE ELSE e.object[1] = db)
    THEN FALSE
    ELSE privilege \in e.privileges

\* user_grant.rs 108-128: GrantEntry::verify_database_privilege
EntryVerifyDatabasePrivilege(e, user, host, db, privilege) ==
    IF ~MatchesUserHost(e, user, host) THEN FALSE
    ELSE IF ~(IF e.object = Global THEN TRUE
              ELSE IF Len(e.object) = 1 THEN e.object[1] = db
              ELSE FALSE)
    THEN FALSE
    ELSE privilege \in e.privileges

\* user_grant.rs 130-153: GrantEntry::verify_table_privilege
EntryVerifyTablePrivilege(e, user, host, db, table, privilege) ==
    IF ~MatchesUserHost(e, user, host) THEN FALSE
    ELSE IF ~(IF e.object = Global THEN TRUE
              ELSE IF Len(e.object) = 1 THEN e.object[1] = db
              ELSE e.object[1] = db /\ e.object[2] = table)
    THEN FALSE
    ELSE privilege \in e.privileges

\* user_grant.rs 208-218
VerifyGlobalPrivilege(g, user, host, privilege) ==
    \E i \in 1..Len(g) : EntryVerifyGlobalPrivilege(g[i], user, host, privilege)

\* user_grant.rs 220-230
VerifyDatabasePrivilege(g, user, host, db, privilege) ==
    \E i \in 1..Len(g) :
        EntryVerifyDatabasePrivilege(g[i], user, host, db, privilege)

\* user_grant.rs 232-242
VerifyTablePrivilege(g, user, host, db, table, privilege) ==
    \E i \in 1..Len(g) :
        EntryVerifyTablePrivilege(g[i], user, host, db, table, privilege)

\* BitFlags: a ^ b
Xor(a, b) == (a \ b) \cup (b \ a)

\* A grant that pushes a new entry whether one matched or not.
GrantPrivilegesAlwaysPush(g, user, host_pattern, object, privileges) ==
    [i \in 1..Len(g) |->
        IF MatchesEntry(g[i], user, host_pattern, object)
        THEN [g[i] EXCEPT !.privileges = @ \cup privileges]
        ELSE g[i]]
    \o <<GrantEntry(user, host_pattern, object, privileges)>>

\* A grant that sets the privileges of the matching entries to the granted
\* ones.
GrantPrivilegesAssign(g, user, host_pattern, object, privileges) ==
    LET new_grants ==
            [i \in 1..Len(g) |->
                IF MatchesEntry(g[i], user, host_pattern, object)
                THEN [g[i] EXCEPT !.privileges = privileges]
                ELSE g[i]]
        changed ==
            \E i \in 1..Len(g) : MatchesEntry(g[i], user, host_pattern, object)
    IN IF ~changed
       THEN new_grants \o <<GrantEntry(user, host_pattern, object, privileges)>>
       ELSE new_grants

\* user_grant.rs 244-274: the entries in their order, the matching ones
\* with the privileges or-ed in; a new entry at the end when none matched.
GrantPrivileges(g, user, host_pattern, object, privileges) ==
    LET new_grants ==
            [i \in 1..Len(g) |->
                IF MatchesEntry(g[i], user, host_pattern, object)
                THEN [g[i] EXCEPT !.privileges = @ \cup privileges]
                ELSE g[i]]
        changed ==
            \E i \in 1..Len(g) : MatchesEntry(g[i], user, host_pattern, object)
    IN IF ~changed
       THEN new_grants \o <<GrantEntry(user, host_pattern, object, privileges)>>
       ELSE new_grants

\* user_grant.rs 276-299: the entries in their order, the matching ones
\* with the privileges xor-ed in (line 290), without the entries that hold
\* no privilege (line 296).
RevokePrivileges(g, user, host_pattern, object, privileges) ==
    SelectSeq([i \in 1..Len(g) |->
                  IF MatchesEntry(g[i], user, host_pattern, object)
                  THEN [g[i] EXCEPT !.privileges = Xor(@, privileges)]
                  ELSE g[i]],
              LAMBDA e : e.privileges # {})

\* The record of a call.
CallOf(op, user, host_pattern, object, privileges, ok) ==
    [op |-> op, user |-> user, host_pattern |-> host_pattern,
     object |-> object, privileges |-> privileges, ok |-> ok]

\* UserGrantSet::empty(), and no transform or scan besides.
InitGrants ==
    /\ NoGrants
    /\ NoTransform
    /\ parts = <<>>
    /\ outcome = <<>>
    /\ catErrAt = 0
    /\ nfields = MaxFields
    /\ push_downs = None
    /\ NoScan
    /\ NoTracing

\* grant_privileges(user, host_pattern, object, privileges)
Grant ==
    \E user \in Users, target \in Targets, privileges \in SUBSET Privileges :
      LET host_pattern == target[1]
          object == target[2]
      IN
        /\ Len(GrantPrivileges(grants, user, host_pattern, object, privileges))
              <= MaxEntries
        /\ grants' = GrantPrivileges(grants, user, host_pattern, object,
                                     privileges)
        /\ before' = grants
        /\ lastCall' = CallOf("grant", user, host_pattern, object, privileges,
                              TRUE)
        /\ UNCHANGED <<scanVars, aggVars, logVars>>

\* revoke_privileges(user, host_pattern, object, privileges)
Revoke ==
    \E user \in Users, target \in Targets, privileges \in SUBSET Privileges :
      LET host_pattern == target[1]
          object == target[2]
      IN
        /\ grants' = RevokePrivileges(grants, user, host_pattern, object,
                                      privileges)
        /\ before' = grants
        /\ lastCall' = CallOf("revoke", user, host_pattern, object,
                              privileges, TRUE)
        /\ UNCHANGED <<scanVars, aggVars, logVars>>

\* object.validate_privileges(privileges)
Validate ==
    \E object \in GrantObjects, privileges \in SUBSET Privileges :
        /\ grants' = grants
        /\ before' = grants
        /\ lastCall' = CallOf("validate", "", "", object, privileges,
                              ValidatePrivileges(object, privileges) = "Ok")
        /\ UNCHANGED <<scanVars, aggVars, logVars>>

NextGrants == Grant \/ Revoke \/ Validate

SpecGrants == InitGrants /\ [][NextGrants]_vars

\* ----------------------------------------------------------------- claims
\* The users the privileges are verified for: one with grants, one without.
AllUsers == Users \cup {"u2"}

SameTriple(e, f) ==
    e.user = f.user /\ e.host_pattern = f.host_pattern /\ e.object = f.object

\* The entries of g the last call names.
Matching(g) ==
    {i \in 1..Len(g) :
        MatchesEntry(g[i], lastCall.user, lastCall.host_pattern,
                     lastCall.object)}

\* C16: validate_privileges is Ok exactly when the object's kind allows
\* every privilege of the set, IllegalGrant as soon as one of them is not
\* allowed, and leaves the grant set as it is.
C16_ValidateAllowsExactlyAvailable ==
    lastCall.op = "validate" =>
        /\ lastCall.ok <=>
              lastCall.privileges \subseteq AvailablePrivileges(lastCall.object)
        /\ ~lastCall.ok <=>
              \E p \in lastCall.privileges :
                  p \notin AvailablePrivileges(lastCall.object)
        /\ grants = before

\* A set with one privilege a table allows and one it does not has been
\* refused for a table.
C16_Witness ==
    /\ lastCall.op = "validate"
    /\ lastCall.object = Table("d1", "t1")
    /\ lastCall.privileges = {"Select", "Set"}
    /\ ~lastCall.ok

\* C17: revoke_privileges adds no privilege: every entry left holds a
\* subset of what it held before, and the entries the call names hold none
\* of the revoked privileges afterwards.
C17_RevokeNeverAdds ==
    lastCall.op = "revoke" =>
        /\ \A i \in 1..Len(grants) :
              \E j \in 1..Len(before) :
                  /\ SameTriple(grants[i], before[j])
                  /\ grants[i].privileges \subseteq before[j].privileges
        /\ \A i \in Matching(grants) :
              grants[i].privileges \cap lastCall.privileges = {}

\* C18: the set holds at most one entry per (user, host_pattern, object).
C18_OneEntryPerTriple ==
    \A i, j \in 1..Len(grants) :
        SameTriple(grants[i], grants[j]) => i = j

\* A grant on an entry the set holds, next to another entry on the same
\* object under another host pattern, and a revoke that left two entries.
C18_Witness ==
    /\ Len(grants) = 2
    /\ Len(before) = 2
    /\ lastCall.op \in {"grant", "revoke"}
    /\ Matching(before) # {}
    /\ grants[1].object = grants[2].object
    /\ grants[1].host_pattern # grants[2].host_pattern

\* C19: a privilege verified globally is verified on every database, one
\* verified on a database is verified on every table of it; a grant on a
\* table makes no database or global verification true, a grant on a
\* database no global one.
C19_PrivilegeHierarchy ==
    \A user \in AllUsers, host \in Hosts, p \in Privileges :
        /\ VerifyGlobalPrivilege(grants, user, host, p) =>
              \A db \in Dbs : VerifyDatabasePrivilege(grants, user, host, db, p)
        /\ \A db \in Dbs :
              VerifyDatabasePrivilege(grants, user, host, db, p) =>
                 \A t \in Tables :
                    VerifyTablePrivilege(grants, user, host, db, t, p)
        /\ lastCall.op = "grant" /\ Len(lastCall.object) = 2 =>
              /\ VerifyGlobalPrivilege(grants, user, host, p)
                    => VerifyGlobalPrivilege(before, user, host, p)
              /\ \A db \in Dbs :
                    VerifyDatabasePrivilege(grants, user, host, db, p)
                       => VerifyDatabasePrivilege(before, user, host, db, p)
        /\ lastCall.op = "grant" /\ Len(lastCall.object) = 1 =>
              (VerifyGlobalPrivilege(grants, user, host, p)
                  => VerifyGlobalPrivilege(before, user, host, p))

\* Select has just been granted on a table and is verified on it but not
\* on its database, next to a global grant of Set to the host h1.
C19_Witness ==
    /\ lastCall.op = "grant"
    /\ lastCall.object = Table("d1", "t1")
    /\ VerifyTablePrivilege(grants, "u1", "h2", "d1", "t1", "Select")
    /\ ~VerifyTablePrivilege(before, "u1", "h2", "d1", "t1", "Select")
    /\ ~VerifyDatabasePrivilege(grants, "u1", "h2", "d1", "Select")
    /\ VerifyGlobalPrivilege(grants, "u1", "h1", "Set")
    /\ VerifyTablePrivilege(grants, "u1", "h1", "d2", "t2", "Set")

\* C20: grant_privileges adds the privileges to the entry the call names,
\* appends that entry when the set has none, leaves the other entries and
\* the order as they are, takes no privilege away, and changes nothing
\* when it is made again.
C20_GrantAddsToMatchingEntry ==
    lastCall.op = "grant" =>
        /\ Matching(before) # {} =>
              /\ Len(grants) = Len(before)
              /\ \A i \in 1..Len(before) :
                    grants[i] =
                       IF i \in Matching(before)
                       THEN [before[i] EXCEPT
                                !.privileges = @ \cup lastCall.privileges]
                       ELSE before[i]
        /\ Matching(before) = {} =>
              grants = Append(before,
                              GrantEntry(lastCall.user, lastCall.host_pattern,
                                         lastCall.object, lastCall.privileges))
        /\ \A i \in 1..Len(before) :
              /\ SameTriple(grants[i], before[i])
              /\ before[i].privileges \subseteq grants[i].privileges
        /\ GrantPrivileges(grants, lastCall.user, lastCall.host_pattern,
                           lastCall.object, lastCall.privileges) = grants

\* Set has been granted to the first of two entries, which held Select.
C20_Witness ==
    /\ lastCall.op = "grant"
    /\ lastCall.privileges = {"Set"}
    /\ Len(before) = 2
    /\ Matching(before) = {1}
    /\ before[1].privileges = {"Select"}
    /\ grants[1].privileges = {"Select", "Set"}
    /\ grants[2] = before[2]

\* ------------------------------------------- init_default_ut_tracing
\* ------------------------------------------------------------------ bounds
MaxCallers == 3      \* threads that call init_default_ut_tracing
MaxCalls == 2        \* calls one thread makes, one after the other

Callers == 1..MaxCallers

\* logging.rs 60-71, 94: the guards init_global_tracing returns, one of the
\* stdout writer and one of the rolling file writer.
Guards == <<"stdout_guard", "rolling_writer_guard">>

\* A Once that lets a caller through while another one runs the closure.
OnceEntryNoWait(state) ==
    CASE state = "INCOMPLETE" -> "run"
      [] state = "RUNNING" -> "return"
      [] state = "COMPLETE" -> "return"
      [] OTHER -> "panic"

\* logging.rs 38, Once::call_once: what a caller does on the state it finds:
\* run the closure, wait for the thread that runs it, return at once, or
\* panic because the closure has panicked.
OnceEntry(state) ==
    CASE state = "INCOMPLETE" -> "run"
      [] state = "RUNNING" -> "wait"
      [] state = "COMPLETE" -> "return"
      [] OTHER -> "panic"

\* No thread has called yet; START is new, the slot holds None
\* (logging.rs 36, 44-45).
InitTracing ==
    /\ once = "INCOMPLETE"
    /\ caller = [t \in Callers |-> "idle"]
    /\ calls = [t \in Callers |-> 0]
    /\ guard_slot = None
    /\ mutex = "free"
    /\ inits = [started |-> 0, finished |-> 0]
    /\ NoTransform
    /\ NoGrants
    /\ parts = <<>>
    /\ outcome = <<>>
    /\ catErrAt = 0
    /\ nfields = MaxFields
    /\ push_downs = None
    /\ NoScan

\* logging.rs 35: a thread calls init_default_ut_tracing.
CallInit(t) ==
    /\ caller[t] = "idle"
    /\ calls[t] < MaxCalls
    /\ caller' = [caller EXCEPT ![t] = "call_once"]
    /\ UNCHANGED <<once, calls, guard_slot, mutex, inits, scanVars, aggVars,
                   grantVars>>

\* logging.rs 38: START.call_once reads the state of the Once; the thread
\* that finds it INCOMPLETE makes it RUNNING and goes on to the closure.
CallOnce(t) ==
    /\ caller[t] = "call_once"
    /\ caller' = [caller EXCEPT ![t] =
                     CASE OnceEntry(once) = "run" -> "closure"
                       [] OnceEntry(once) = "wait" -> "waiting"
                       [] OnceEntry(once) = "return" -> "returned"
                       [] OTHER -> "panicked"]
    /\ once' = IF OnceEntry(once) = "run" THEN "RUNNING" ELSE once
    /\ UNCHANGED <<calls, guard_slot, mutex, inits, scanVars, aggVars,
                   grantVars>>

\* logging.rs 39-40: the closure locks the slot and calls
\* init_global_tracing.
LockAndInit(t) ==
    /\ caller[t] = "closure"
    /\ mutex = "free"
    /\ mutex' = "held"
    /\ inits' = [inits EXCEPT !.started = @ + 1]
    /\ caller' = [caller EXCEPT ![t] = "init"]
    /\ UNCHANGED <<once, calls, guard_slot, scanVars, aggVars, grantVars>>

\* logging.rs 40-41, 94: init_global_tracing returns its guards, the
\* closure stores them in the slot and releases the lock, the Once is
\* COMPLETE and the call returns.
InitDone(t) ==
    /\ caller[t] = "init"
    /\ inits' = [inits EXCEPT !.finished = @ + 1]
    /\ guard_slot' = Some(Guards)
    /\ mutex' = "free"
    /\ once' = "COMPLETE"
    /\ caller' = [caller EXCEPT ![t] = "returned"]
    /\ UNCHANGED <<calls, scanVars, aggVars, grantVars>>

\* logging.rs 78, 92: one of the two expect() of init_global_tracing
\* panics (no Jaeger pipeline, or a global subscriber is set already).  The
\* panic unwinds through the closure: the lock is poisoned, the slot is
\* left as it is, the Once is POISONED.
InitPanic(t) ==
    /\ caller[t] = "init"
    /\ mutex' = "poisoned"
    /\ once' = "POISONED"
    /\ caller' = [caller EXCEPT ![t] = "panicked"]
    /\ UNCHANGED <<calls, guard_slot, inits, scanVars, aggVars, grantVars>>

\* logging.rs 38: a thread waiting in call_once goes on when the closure
\* has been left: it returns, or panics when the closure has panicked.
Wake(t) ==
    /\ caller[t] = "waiting"
    /\ once # "RUNNING"
    /\ caller' = [caller EXCEPT ![t] =
                     IF once = "COMPLETE" THEN "returned" ELSE "panicked"]
    /\ UNCHANGED <<once, calls, guard_slot, mutex, inits, scanVars, aggVars,
                   grantVars>>

\* The thread is back from a call and free to make another one.
Returned(t) ==
    /\ caller[t] = "returned"
    /\ calls' = [calls EXCEPT ![t] = @ + 1]
    /\ caller' = [caller EXCEPT ![t] = "idle"]
    /\ UNCHANGED <<once, guard_slot, mutex, inits, scanVars, aggVars,
                   grantVars>>

\* A step of a thread that is inside init_default_ut_tracing.
Run(t) ==
    CallOnce(t) \/ LockAndInit(t) \/ InitDone(t) \/ InitPanic(t) \/ Wake(t)

NextTracing ==
    \E t \in Callers :
        \/ CallInit(t)
        \/ CallOnce(t)
        \/ LockAndInit(t)
        \/ InitDone(t)
        \/ InitPanic(t)
        \/ Wake(t)
        \/ Returned(t)

SpecTracing == InitTracing /\ [][NextTracing]_vars

\* Every thread inside the call is scheduled again and again.
SpecTracingFair == SpecTracing /\ \A t \in Callers : WF_vars(Run(t))

\* ----------------------------------------------------------------- claims
\* init_global_tracing is started at most once, the slot once Some is
\* never written again, and a call that has returned has seen the
\* initialisation finished.
OnceSafety ==
    /\ [](inits.started <= 1 /\ inits.finished <= inits.started)
    /\ [][guard_slot # None => guard_slot' = guard_slot]_vars
    /\ [](guard_slot # None <=> inits.finished = 1)
    /\ [](\A t \in Callers :
            caller[t] = "returned" \/ calls[t] > 0 =>
               inits.finished = 1 /\ guard_slot = Some(Guards))

\* C21 as stated: whatever the interleaving, init_global_tracing is
\* executed exactly once, the slot goes from None to Some once and is not
\* overwritten, and a call returns only after the initialisation.
C21_InitialisedExactlyOnce ==
    /\ OnceSafety
    /\ (\E t \in Callers : caller[t] # "idle")
          ~> (inits.finished = 1 /\ guard_slot # None)

\* C21: init_global_tracing is started at most once, the slot once Some
\* is not overwritten, and a call returns only after the initialisation;
\* once a call is made the initialisation finishes and fills the slot, or
\* it panics, and then the slot stays None, the Once is poisoned and every
\* other call panics instead of returning.
C21_InitialisedOnceOrPoisoned ==
    /\ OnceSafety
    /\ [](once = "POISONED" =>
            /\ guard_slot = None
            /\ inits = [started |-> 1, finished |-> 0]
            /\ \A t \in Callers : caller[t] # "returned" /\ calls[t] = 0)
    /\ [](\A t \in Callers : caller[t] = "panicked" => once = "POISONED")
    /\ (\E t \in Callers : caller[t] # "idle")
          ~> \/ inits.finished = 1 /\ guard_slot # None
             \/ once = "POISONED"
    /\ \A t \in Callers :
          (caller[t] = "call_once") ~> (caller[t] \in {"returned", "panicked"})

\* One thread is back from its second call and another has just returned,
\* after the one initialisation.
C21_Witness ==
    /\ once = "COMPLETE"
    /\ inits = [started |-> 1, finished |-> 1]
    /\ guard_slot = Some(Guards)
    /\ \E t, u \in Callers :
          /\ t # u
          /\ calls[t] = MaxCalls
          /\ caller[u] = "returned"
          /\ calls[u] = 0

====
